---- MODULE Spec2Model ----
(***************************************************************************)
(* Session state of src/src/App.tsx: the cart, the three-step order flow,  *)
(* the reservation selection and the modal/tab wrapper of the App          *)
(* component.  Each onClick handler of the component is one action; React  *)
(* batches the setState calls of one handler into one render, so a handler *)
(* is one atomic step.                                                     *)
(***************************************************************************)
EXTENDS Integers, Sequences, FiniteSets, TLC

VARIABLES isModalOpen, activeTab, cart, selectedDate, selectedTime, orderStep,
          today, lastIntent

vars == <<isModalOpen, activeTab, cart, selectedDate, selectedTime, orderStep,
          today, lastIntent>>

(* ------------------------------ bounds -------------------------------- *)

\* Quantities are unbounded in the code; the model stops incrementing here.
MaxQty == 2

\* The number of midnights the model lets pass during one session.
MaxDay == 1

\* The most handler calls made between two renders.
BatchLen == 2

(* ------------------------------- data --------------------------------- *)

\* MENU, lines 44-77 (description and image are display-only strings).
MENU ==
  << [id |-> "1", name |-> "Margherita D.O.P",   price |-> 68, category |-> "pizza"],
     [id |-> "2", name |-> "Diavola",            price |-> 74, category |-> "pizza"],
     [id |-> "3", name |-> "Nevorento Speciale", price |-> 89, category |-> "pizza"],
     [id |-> "4", name |-> "Tiramisu Classico",  price |-> 32, category |-> "dessert"] >>

TIME_SLOTS ==
  << "18:30", "19:00", "19:30", "20:00", "20:30", "21:00", "21:30", "22:00" >>

\* The literal 10 of "Taxa de Entrega R$ 10,00" and of {cartTotal + 10}.
DeliveryFee == 10

\* [...Array(14)]: the number of date buttons.
WindowDays == 14

Range(s) == { s[k] : k \in DOMAIN s }

\* The cards of the menu grid with a dish of the day that MENU does not list.
MenuItems_WithSpecial ==
  Range(MENU) \cup { [id |-> "5", name |-> "Especial", price |-> 80, category |-> "pizza"] }

MenuItems == Range(MENU)

MenuIds == { m.id : m \in MenuItems }

(* ----------------------------- calendar ------------------------------- *)

\* The calendar day on which the session starts: Sunday 20 December 2026,
\* so that the 14-day window crosses a month and a year end.
StartDate == [year |-> 2026, month |-> 12, day |-> 20, dow |-> 0]

IsLeap(y) == (y % 4 = 0 /\ y % 100 # 0) \/ y % 400 = 0

DaysInMonth(y, m) ==
  IF m = 2 THEN (IF IsLeap(y) THEN 29 ELSE 28)
  ELSE IF m \in {4, 6, 9, 11} THEN 30 ELSE 31

\* Date.prototype.setDate(n) for n >= 1: a day number past the end of the
\* month rolls over into the following months.  Only the calendar fields
\* change: a time of day the date carries stays as it is.
RECURSIVE setDate(_, _)
setDate(date, n) ==
  IF n <= DaysInMonth(date.year, date.month)
  THEN [date EXCEPT !.day = n, !.dow = (date.dow + (n - date.day)) % 7]
  ELSE LET len  == DaysInMonth(date.year, date.month)
           \* the first day of the next month
           first == [date EXCEPT
                       !.year  = IF date.month = 12 THEN date.year + 1 ELSE date.year,
                       !.month = IF date.month = 12 THEN 1 ELSE date.month + 1,
                       !.day   = 1,
                       !.dow   = (date.dow + (len + 1 - date.day)) % 7]
       IN  setDate(first, n - len)

\* new Date() on the day `t` midnights after the session started.
NewDate(t) == setDate(StartDate, StartDate.day + t)

DayNames == << "Sun", "Mon", "Tue", "Wed", "Thu", "Fri", "Sat" >>

MonthNames == << "Jan", "Feb", "Mar", "Apr", "May", "Jun",
                 "Jul", "Aug", "Sep", "Oct", "Nov", "Dec" >>

\* Date.prototype.toDateString(): "Sun Dec 20 2026", as its four tokens.
\* The empty string '' is the empty sequence of tokens.
toDateString(date) ==
  << DayNames[date.dow + 1], MonthNames[date.month], date.day, date.year >>

\* The date of button i of the grid, i in 0..13 (lines 442-443).
ButtonDate(t, i) == LET date == NewDate(t) IN setDate(date, date.day + i)

\* new Date() `minutes` after the start of the calendar day `date`.
AtTime(date, minutes) ==
  [year |-> date.year, month |-> date.month, day |-> date.day, dow |-> date.dow,
   minutes |-> minutes]

\* The date grid counted from the day after `now`: getDate() + i + 1.
AvailableDays_FromTomorrow(now) ==
  [k \in 1 .. WindowDays |-> toDateString(setDate(now, now.day + k))]

\* The date grid rendered at the instant `now`, lines 441-455: the value
\* button i = k - 1 passes to setSelectedDate.
AvailableDays(now) ==
  [k \in 1 .. WindowDays |-> toDateString(setDate(now, now.day + (k - 1)))]

(* --------------------------- cart handlers ---------------------------- *)

Max(a, b) == IF a >= b THEN a ELSE b

\* addToCart without the lookup of an existing line.
addToCart_AlwaysAppend(prev, item) ==
  Append(prev, [item |-> item, quantity |-> 1])

\* addToCart with "quantity: +1" for "quantity: i.quantity + 1".
addToCart_QtyTypo(prev, item) ==
  IF \E k \in DOMAIN prev : prev[k].item.id = item.id
  THEN [k \in DOMAIN prev |->
          IF prev[k].item.id = item.id
          THEN [prev[k] EXCEPT !.quantity = 1]
          ELSE prev[k]]
  ELSE Append(prev, [item |-> item, quantity |-> 1])

\* addToCart with the new line spread first: [{ item, quantity: 1 }, ...prev].
addToCart_Prepend(prev, item) ==
  IF \E k \in DOMAIN prev : prev[k].item.id = item.id
  THEN [k \in DOMAIN prev |->
          IF prev[k].item.id = item.id
          THEN [prev[k] EXCEPT !.quantity = prev[k].quantity + 1]
          ELSE prev[k]]
  ELSE << [item |-> item, quantity |-> 1] >> \o prev

\* The updater of addToCart, lines 143-149.
addToCart(prev, item) ==
  IF \E k \in DOMAIN prev : prev[k].item.id = item.id
  THEN [k \in DOMAIN prev |->
          IF prev[k].item.id = item.id
          THEN [prev[k] EXCEPT !.quantity = prev[k].quantity + 1]
          ELSE prev[k]]
  ELSE Append(prev, [item |-> item, quantity |-> 1])

KeepLine(itemId, i) == i.item.id # itemId

\* removeFromCart that takes one unit off a line holding several.
removeFromCart_Decrement(prev, itemId) ==
  LET dec == [k \in DOMAIN prev |->
                IF prev[k].item.id = itemId /\ prev[k].quantity > 1
                THEN [prev[k] EXCEPT !.quantity = prev[k].quantity - 1]
                ELSE prev[k]]
  IN  IF \E k \in DOMAIN prev : prev[k].item.id = itemId /\ prev[k].quantity > 1
      THEN dec
      ELSE SelectSeq(prev, LAMBDA i : KeepLine(itemId, i))

\* removeFromCart as splice(findIndex(...), 1): an index of -1 drops the last line.
removeFromCart_Splice(prev, itemId) ==
  IF \E k \in DOMAIN prev : prev[k].item.id = itemId
  THEN SelectSeq(prev, LAMBDA i : KeepLine(itemId, i))
  ELSE IF prev = << >> THEN prev ELSE SubSeq(prev, 1, Len(prev) - 1)

\* The updater of removeFromCart, line 153.
removeFromCart(prev, itemId) ==
  SelectSeq(prev, LAMBDA i : KeepLine(itemId, i))

\* updateQuantity without Math.max(1, ...).
updateQuantity_NoClamp(prev, itemId, delta) ==
  [k \in DOMAIN prev |->
     IF prev[k].item.id = itemId
     THEN [prev[k] EXCEPT !.quantity = prev[k].quantity + delta]
     ELSE prev[k]]

SurvivesUpdate(itemId, delta, i) == i.item.id # itemId \/ i.quantity + delta >= 1

\* updateQuantity that drops a line whose quantity would fall below 1.
updateQuantity_DropAtZero(prev, itemId, delta) ==
  LET kept == SelectSeq(prev, LAMBDA i : SurvivesUpdate(itemId, delta, i))
  IN  [k \in DOMAIN kept |->
         IF kept[k].item.id = itemId
         THEN [kept[k] EXCEPT !.quantity = kept[k].quantity + delta]
         ELSE kept[k]]

\* The updater of updateQuantity, lines 157-163.
updateQuantity(prev, itemId, delta) ==
  [k \in DOMAIN prev |->
     IF prev[k].item.id = itemId
     THEN [prev[k] EXCEPT !.quantity = Max(1, prev[k].quantity + delta)]
     ELSE prev[k]]

\* The reduce callback without "* curr.quantity".
RECURSIVE reduce_NoQty(_, _)
reduce_NoQty(c, acc) ==
  IF c = << >> THEN acc
  ELSE reduce_NoQty(Tail(c), acc + Head(c).item.price)

\* cart.reduce((acc, curr) => acc + curr.item.price * curr.quantity, 0)
RECURSIVE reduce(_, _)
reduce(c, acc) ==
  IF c = << >> THEN acc
  ELSE reduce(Tail(c), acc + (Head(c).item.price * Head(c).quantity))

cartTotal(c) == reduce(c, 0)

\* {cartTotal + 10}, line 571.
displayedTotal(c) == cartTotal(c) + 10

\* The quantity of the line for itemId, 0 when the cart has none.
RECURSIVE QtyOf(_, _)
QtyOf(c, itemId) ==
  IF c = << >> THEN 0
  ELSE IF Head(c).item.id = itemId THEN Head(c).quantity
  ELSE QtyOf(Tail(c), itemId)

CartIds(c) == { c[k].item.id : k \in DOMAIN c }

(* ------------------------------ state --------------------------------- *)

\* The intent handled last: its name, its id or tab or slot argument, its
\* numeric argument, and the quantity the id's line had when it arrived.
Intent(op, id, delta, qty) == [op |-> op, id |-> id, delta |-> delta, qty |-> qty]

\* useState initial values, lines 87-92.
Init ==
  /\ isModalOpen = FALSE
  /\ activeTab = "reserve"
  /\ cart = << >>
  /\ selectedDate = << >>
  /\ selectedTime = ""
  /\ orderStep = "selection"
  /\ today = 0
  /\ lastIntent = Intent("none", "", 0, 0)


(* ------------------------ session wrapper (UI) ------------------------ *)

\* Header cart badge, lines 182-191: rendered while cart.length > 0.
CartBadgeClick ==
  /\ Len(cart) > 0
  /\ activeTab' = "order"
  /\ isModalOpen' = TRUE
  /\ lastIntent' = Intent("openOverlay", "order", 0, 0)
  /\ UNCHANGED <<cart, selectedDate, selectedTime, orderStep, today>>

\* Header RESERVAR / PEDIR button, lines 193-198: opens on the current tab.
HeaderOpenClick ==
  /\ isModalOpen' = TRUE
  /\ lastIntent' = Intent("openOverlay", "", 0, 0)
  /\ UNCHANGED <<activeTab, cart, selectedDate, selectedTime, orderStep, today>>

\* A hero button that only opens the modal, like the header button, and
\* leaves the tab to a later render.
HeroClick_OpenOnly(tab) ==
  /\ isModalOpen' = TRUE
  /\ lastIntent' = Intent("openOverlay", tab, 0, 0)
  /\ UNCHANGED <<activeTab, cart, selectedDate, selectedTime, orderStep, today>>

\* Hero PEDIR DELIVERY (line 224) and RESERVAR MESA (line 230).
HeroClick(tab) ==
  /\ activeTab' = tab
  /\ isModalOpen' = TRUE
  /\ lastIntent' = Intent("openOverlay", tab, 0, 0)
  /\ UNCHANGED <<cart, selectedDate, selectedTime, orderStep, today>>

\* Closing the modal with the reset of VOLTAR AO SITE attached to it.
CloseClick_ClearsCart ==
  /\ isModalOpen
  /\ isModalOpen' = FALSE
  /\ cart' = << >>
  /\ lastIntent' = Intent("closeOverlay", "", 0, 0)
  /\ UNCHANGED <<activeTab, selectedDate, selectedTime, orderStep, today>>

\* Modal backdrop (line 389) and the X button (line 426).
CloseClick ==
  /\ isModalOpen
  /\ isModalOpen' = FALSE
  /\ lastIntent' = Intent("closeOverlay", "", 0, 0)
  /\ UNCHANGED <<activeTab, cart, selectedDate, selectedTime, orderStep, today>>

\* A tab button that also sends the order tab back to its first step.
TabClick_ResetsStep(tab) ==
  /\ isModalOpen
  /\ activeTab' = tab
  /\ orderStep' = "selection"
  /\ lastIntent' = Intent("setActiveTab", tab, 0, 0)
  /\ UNCHANGED <<isModalOpen, cart, selectedDate, selectedTime, today>>

\* Sidebar tab buttons, lines 401-414.
TabClick(tab) ==
  /\ isModalOpen
  /\ activeTab' = tab
  /\ lastIntent' = Intent("setActiveTab", tab, 0, 0)
  /\ UNCHANGED <<isModalOpen, cart, selectedDate, selectedTime, orderStep, today>>

SessionUI ==
  \/ CartBadgeClick
  \/ HeaderOpenClick
  \/ \E tab \in {"reserve", "order"} : HeroClick(tab)
  \/ CloseClick
  \/ \E tab \in {"reserve", "order"} : TabClick(tab)

(* ----------------------- reservation selector (UI) -------------------- *)

ReserveTabShown == isModalOpen /\ activeTab = "reserve"

\* A date button that also clears the time slot chosen for the earlier day.
DateClick_ResetsTime(i) ==
  /\ ReserveTabShown
  /\ selectedDate' = toDateString(ButtonDate(today, i))
  /\ selectedTime' = ""
  /\ lastIntent' = Intent("selectDay", "", i, 0)
  /\ UNCHANGED <<isModalOpen, activeTab, cart, orderStep, today>>

\* A date button that deselects the day when it is the selected one.
DateClick_Toggle(i) ==
  /\ ReserveTabShown
  /\ selectedDate' = IF selectedDate = toDateString(ButtonDate(today, i))
                     THEN << >>
                     ELSE toDateString(ButtonDate(today, i))
  /\ lastIntent' = Intent("selectDay", "", i, 0)
  /\ UNCHANGED <<isModalOpen, activeTab, cart, selectedTime, orderStep, today>>

\* Date button i, lines 441-455.
DateClick(i) ==
  /\ ReserveTabShown
  /\ selectedDate' = toDateString(ButtonDate(today, i))
  /\ lastIntent' = Intent("selectDay", "", i, 0)
  /\ UNCHANGED <<isModalOpen, activeTab, cart, selectedTime, orderStep, today>>

\* Time slot button, lines 463-471.
TimeClick(time) ==
  /\ ReserveTabShown
  /\ selectedTime' = time
  /\ lastIntent' = Intent("selectTime", time, 0, 0)
  /\ UNCHANGED <<isModalOpen, activeTab, cart, selectedDate, orderStep, today>>

\* disabled={!selectedDate && !selectedTime}.
ConfirmDisabled_And == selectedDate = << >> /\ selectedTime = ""

\* disabled={!selectedDate || !selectedTime}, line 476.
ConfirmDisabled == selectedDate = << >> \/ selectedTime = ""

\* CONFIRMAR RESERVA, lines 475-480: the button has no onClick.
ConfirmClick ==
  /\ ReserveTabShown
  /\ ~ConfirmDisabled
  /\ lastIntent' = Intent("confirmReservation", "", 0, 0)
  /\ UNCHANGED <<isModalOpen, activeTab, cart, selectedDate, selectedTime,
                 orderStep, today>>

ReserveUI(dayButtons, slots) ==
  \/ \E i \in dayButtons : DateClick(i)
  \/ \E time \in slots : TimeClick(time)
  \/ ConfirmClick

\* The calendar day changes while the page stays open.
Midnight ==
  /\ today < MaxDay
  /\ today' = today + 1
  /\ UNCHANGED <<isModalOpen, activeTab, cart, selectedDate, selectedTime,
                 orderStep, lastIntent>>

(* --------------------------- order flow (UI) -------------------------- *)

OrderTabShown == isModalOpen /\ activeTab = "order"

\* The menu grid rendered in every step of the order tab.
AddClick_AnyStep(item) ==
  /\ OrderTabShown
  /\ QtyOf(cart, item.id) < MaxQty
  /\ cart' = addToCart(cart, item)
  /\ lastIntent' = Intent("addItem", item.id, 0, QtyOf(cart, item.id))
  /\ UNCHANGED <<isModalOpen, activeTab, selectedDate, selectedTime, orderStep, today>>

\* Plus button of a menu card, lines 503-524, shown in the selection step.
AddClick(item) ==
  /\ OrderTabShown
  /\ orderStep = "selection"
  /\ QtyOf(cart, item.id) < MaxQty
  /\ cart' = addToCart(cart, item)
  /\ lastIntent' = Intent("addItem", item.id, 0, QtyOf(cart, item.id))
  /\ UNCHANGED <<isModalOpen, activeTab, selectedDate, selectedTime, orderStep, today>>

\* FINALIZAR PEDIDO rendered whatever the cart holds.
FinalizarPedidoClick_Unguarded ==
  /\ OrderTabShown
  /\ orderStep = "selection"
  /\ orderStep' = "summary"
  /\ lastIntent' = Intent("advanceToSummary", "", 0, 0)
  /\ UNCHANGED <<isModalOpen, activeTab, cart, selectedDate, selectedTime, today>>

\* FINALIZAR PEDIDO, lines 492-499: rendered while cart.length > 0.
FinalizarPedidoClick ==
  /\ OrderTabShown
  /\ orderStep = "selection"
  /\ Len(cart) > 0
  /\ orderStep' = "summary"
  /\ lastIntent' = Intent("advanceToSummary", "", 0, 0)
  /\ UNCHANGED <<isModalOpen, activeTab, cart, selectedDate, selectedTime, today>>

\* VOLTAR AO MENU under the cart.length > 0 condition of FINALIZAR PEDIDO.
VoltarAoMenuClick_NeedsItems ==
  /\ OrderTabShown
  /\ orderStep = "summary"
  /\ Len(cart) > 0
  /\ orderStep' = "selection"
  /\ lastIntent' = Intent("returnToSelection", "", 0, 0)
  /\ UNCHANGED <<isModalOpen, activeTab, cart, selectedDate, selectedTime, today>>

\* VOLTAR AO MENU, lines 531-536.
VoltarAoMenuClick ==
  /\ OrderTabShown
  /\ orderStep = "summary"
  /\ orderStep' = "selection"
  /\ lastIntent' = Intent("returnToSelection", "", 0, 0)
  /\ UNCHANGED <<isModalOpen, activeTab, cart, selectedDate, selectedTime, today>>

\* Minus (line 551) and Plus (line 553) of a summary line: delta is -1 or 1.
QuantityClick(itemId, delta) ==
  /\ OrderTabShown
  /\ orderStep = "summary"
  /\ itemId \in CartIds(cart)
  /\ QtyOf(cart, itemId) + delta <= MaxQty
  /\ cart' = updateQuantity(cart, itemId, delta)
  /\ lastIntent' = Intent("updateQuantity", itemId, delta, QtyOf(cart, itemId))
  /\ UNCHANGED <<isModalOpen, activeTab, selectedDate, selectedTime, orderStep, today>>

\* X of a summary line, line 555.
RemoveClick(itemId) ==
  /\ OrderTabShown
  /\ orderStep = "summary"
  /\ itemId \in CartIds(cart)
  /\ cart' = removeFromCart(cart, itemId)
  /\ lastIntent' = Intent("removeItem", itemId, 0, QtyOf(cart, itemId))
  /\ UNCHANGED <<isModalOpen, activeTab, selectedDate, selectedTime, orderStep, today>>

\* FINALIZAR E PAGAR that empties the cart as it confirms the order.
FinalizarEPagarClick_ClearsCart ==
  /\ OrderTabShown
  /\ orderStep = "summary"
  /\ orderStep' = "success"
  /\ cart' = << >>
  /\ lastIntent' = Intent("finalizeOrder", "", 0, 0)
  /\ UNCHANGED <<isModalOpen, activeTab, selectedDate, selectedTime, today>>

\* FINALIZAR E PAGAR, lines 575-580.
FinalizarEPagarClick ==
  /\ OrderTabShown
  /\ orderStep = "summary"
  /\ orderStep' = "success"
  /\ lastIntent' = Intent("finalizeOrder", "", 0, 0)
  /\ UNCHANGED <<isModalOpen, activeTab, cart, selectedDate, selectedTime, today>>

\* VOLTAR AO SITE without its setCart([]).
VoltarAoSiteClick_KeepsCart ==
  /\ OrderTabShown
  /\ orderStep = "success"
  /\ isModalOpen' = FALSE
  /\ orderStep' = "selection"
  /\ lastIntent' = Intent("acknowledgeSuccessAndReset", "", 0, 0)
  /\ UNCHANGED <<activeTab, cart, selectedDate, selectedTime, today>>

\* VOLTAR AO SITE resetting every piece of state to its initial value.
VoltarAoSiteClick_ResetsAll ==
  /\ OrderTabShown
  /\ orderStep = "success"
  /\ isModalOpen' = FALSE
  /\ orderStep' = "selection"
  /\ cart' = << >>
  /\ activeTab' = "reserve"
  /\ selectedDate' = << >>
  /\ selectedTime' = ""
  /\ lastIntent' = Intent("acknowledgeSuccessAndReset", "", 0, 0)
  /\ UNCHANGED today

\* VOLTAR AO SITE, lines 595-600.
VoltarAoSiteClick ==
  /\ OrderTabShown
  /\ orderStep = "success"
  /\ isModalOpen' = FALSE
  /\ orderStep' = "selection"
  /\ cart' = << >>
  /\ lastIntent' = Intent("acknowledgeSuccessAndReset", "", 0, 0)
  /\ UNCHANGED <<activeTab, selectedDate, selectedTime, today>>

OrderUI(items) ==
  \/ \E item \in items : AddClick(item)
  \/ FinalizarPedidoClick
  \/ VoltarAoMenuClick
  \/ \E itemId \in CartIds(cart) : \E delta \in {-1, 1} : QuantityClick(itemId, delta)
  \/ \E itemId \in CartIds(cart) : RemoveClick(itemId)
  \/ FinalizarEPagarClick
  \/ VoltarAoSiteClick

(* ------------- the cart handlers called with any argument ------------- *)

\* addToCart(item), lines 142-150, whatever the step shown.
CallAddToCart(item) ==
  /\ QtyOf(cart, item.id) < MaxQty
  /\ cart' = addToCart(cart, item)
  /\ lastIntent' = Intent("addItem", item.id, 0, QtyOf(cart, item.id))
  /\ UNCHANGED <<isModalOpen, activeTab, selectedDate, selectedTime, orderStep, today>>

\* removeFromCart(itemId), lines 152-154, for any string.
CallRemoveFromCart(itemId) ==
  /\ cart' = removeFromCart(cart, itemId)
  /\ lastIntent' = Intent("removeItem", itemId, 0, QtyOf(cart, itemId))
  /\ UNCHANGED <<isModalOpen, activeTab, selectedDate, selectedTime, orderStep, today>>

\* updateQuantity(itemId, delta), lines 156-164, for any string and number.
CallUpdateQuantity(itemId, delta) ==
  /\ QtyOf(cart, itemId) + delta <= MaxQty
  /\ cart' = updateQuantity(cart, itemId, delta)
  /\ lastIntent' = Intent("updateQuantity", itemId, delta, QtyOf(cart, itemId))
  /\ UNCHANGED <<isModalOpen, activeTab, selectedDate, selectedTime, orderStep, today>>

\* The menu item with the given id.
MenuItem(itemId) == CHOOSE m \in MenuItems : m.id = itemId

\* A handler call waiting in the update queue of the cart state.
Queued(op, itemId, delta) == [op |-> op, id |-> itemId, delta |-> delta]

\* The handlers passing setCart a value computed from the cart of the render
\* that created them, as in setCart([...cart, line]).
CartUpdater_FromSnapshot(call, snapshot, prev) ==
  IF call.op = "addItem" THEN addToCart(snapshot, MenuItem(call.id))
  ELSE IF call.op = "removeItem" THEN removeFromCart(snapshot, call.id)
  ELSE updateQuantity(snapshot, call.id, call.delta)

\* What the three handlers pass to setCart, lines 143, 153 and 157: a
\* function of prev, the state the queue has produced so far.  The cart of
\* the render that created the handler (snapshot) is not read.
CartUpdater(call, snapshot, prev) ==
  IF call.op = "addItem" THEN addToCart(prev, MenuItem(call.id))
  ELSE IF call.op = "removeItem" THEN removeFromCart(prev, call.id)
  ELSE updateQuantity(prev, call.id, call.delta)

\* The next render of useState: the queued setCart arguments are applied
\* first to last, each to the outcome of the one before.
RECURSIVE processQueue(_, _, _)
processQueue(state, snapshot, queue) ==
  IF queue = << >> THEN state
  ELSE processQueue(CartUpdater(Head(queue), snapshot, state), snapshot, Tail(queue))

\* Several handler calls made from one render, before the next one.
CallBatch(queue) ==
  /\ cart' = processQueue(cart, cart, queue)
  /\ \A k \in DOMAIN cart' : cart'[k].quantity <= MaxQty
  /\ lastIntent' = Intent("batch", Head(queue).id, Len(queue), QtyOf(cart, Head(queue).id))
  /\ UNCHANGED <<isModalOpen, activeTab, selectedDate, selectedTime, orderStep, today>>

Calls(items, ids, deltas) ==
  \/ \E item \in items : CallAddToCart(item)
  \/ \E itemId \in ids : CallRemoveFromCart(itemId)
  \/ \E itemId \in ids : \E delta \in deltas : CallUpdateQuantity(itemId, delta)

(* --------------------------- specifications --------------------------- *)

\* Inputs of the whole-program specifications: two menu cards, the first and
\* the last date button, the first and the last time slot.
ItemInputs == { MENU[1], MENU[2] }

DayInputs == { 0, WindowDays - 1 }

SlotInputs == { TIME_SLOTS[1], TIME_SLOTS[Len(TIME_SLOTS)] }

\* An id no menu item has.
UnknownId == "0"

Deltas == { -5, -1, 1 }

\* Every control of the component, as the user drives it.
NextUI ==
  \/ SessionUI
  \/ ReserveUI(DayInputs, SlotInputs)
  \/ OrderUI(ItemInputs)

\* The component over a session in which the day may change.
Next ==
  \/ NextUI
  \/ Midnight

Spec == Init /\ [][Next]_vars

\* The component within one day, its three cart handlers also called directly.
NextCalls ==
  \/ NextUI
  \/ Calls(ItemInputs, { m.id : m \in ItemInputs } \cup {UnknownId}, Deltas)

SpecCalls == Init /\ [][NextCalls]_vars

\* Inputs of the cart specification: three menu cards.
CartInputs == { MENU[1], MENU[2], MENU[3] }

\* The order side alone, its handlers also called directly.
NextCart ==
  \/ SessionUI
  \/ OrderUI(CartInputs)
  \/ Calls(CartInputs, MenuIds \cup {UnknownId}, Deltas)

SpecCart == Init /\ [][NextCart]_vars

\* The handler calls a batch is made of: each handler on each of two items.
BatchCalls ==
  { Queued("addItem", m.id, 0) : m \in ItemInputs }
    \cup { Queued("removeItem", m.id, 0) : m \in ItemInputs }
    \cup { Queued("updateQuantity", m.id, d) : m \in ItemInputs, d \in {-1, 1} }

\* Batches of two calls up to BatchLen calls.
Batches == UNION { [1 .. n -> BatchCalls] : n \in 2 .. BatchLen }

\* The order side, its handlers also called several times between renders.
NextBatch ==
  \/ SessionUI
  \/ OrderUI(ItemInputs)
  \/ \E queue \in Batches : CallBatch(queue)

SpecBatch == Init /\ [][NextBatch]_vars

\* The order side as the user drives it, every card of the menu grid offered.
NextMenu ==
  \/ SessionUI
  \/ OrderUI(MenuItems)

SpecMenu == Init /\ [][NextMenu]_vars

(* ------------------------------ claims -------------------------------- *)

\* The index of the line for itemId in c (0 when there is none).
Pos(c, itemId) ==
  IF itemId \in CartIds(c)
  THEN CHOOSE k \in DOMAIN c : c[k].item.id = itemId
  ELSE 0

\* The number of lines of c for itemId.
LinesFor(c, itemId) == Cardinality({ k \in DOMAIN c : c[k].item.id = itemId })

\* Any two ids with a line in both carts stand in the same order in both.
SameRelativeOrder(c, d) ==
  \A a, b \in CartIds(c) \cap CartIds(d) :
    (Pos(c, a) < Pos(c, b)) <=> (Pos(d, a) < Pos(d, b))

\* C1: in every reachable state the cart holds at most one line per
\* MenuItem id.
C1_OneLinePerItem ==
  \A j, k \in DOMAIN cart : cart[j].item.id = cart[k].item.id => j = k

\* C1 witness: addItem arrived for an item already in a cart of three lines.
C1_Witness ==
  /\ lastIntent.op = "addItem"
  /\ lastIntent.qty >= 1
  /\ Len(cart) = 3

\* n addToCart calls of the same item in a row.
RECURSIVE AddN(_, _, _)
AddN(c, item, n) == IF n = 0 THEN c ELSE AddN(addToCart(c, item), item, n - 1)

\* What C2 says one addItem(item) step does to the cart.
C2_AddEffect(item) ==
  IF item.id \in CartIds(cart)
  THEN /\ Len(cart') = Len(cart)
       /\ \A k \in DOMAIN cart :
            /\ cart'[k].item = cart[k].item
            /\ cart'[k].quantity =
                 cart[k].quantity + (IF cart[k].item.id = item.id THEN 1 ELSE 0)
  ELSE /\ Len(cart') = Len(cart) + 1
       /\ SubSeq(cart', 1, Len(cart)) = cart
       /\ cart'[Len(cart')] = [item |-> item, quantity |-> 1]

\* From a cart without the item, n calls in a row leave one line of quantity n.
C2_AddRun ==
  \A item \in MenuItems :
    item.id \notin CartIds(cart) =>
      \A n \in 1 .. (MaxQty + 1) :
        LET c == AddN(cart, item, n)
        IN  LinesFor(c, item.id) = 1 /\ QtyOf(c, item.id) = n

\* C2: addItem(item) adds exactly 1 to the quantity of the existing line for
\* item.id, or else appends a new line of quantity 1 at the end; n calls in a
\* row on an item the cart lacks leave exactly one line for it, of quantity n.
C2_AddItem ==
  /\ []C2_AddRun
  /\ [][\A item \in MenuItems :
          (AddClick(item) \/ CallAddToCart(item)) => C2_AddEffect(item)]_vars

\* C2 witness: addItem(Margherita) twice on the empty cart: one line of
\* quantity 2 and a subtotal of 136.
C2_Witness ==
  /\ lastIntent.op = "addItem"
  /\ cart = << [item |-> MENU[1], quantity |-> 2] >>
  /\ cartTotal(cart) = 136

\* C3: in every reachable state every cart line has a quantity of at least 1.
C3_QuantityAtLeastOne ==
  \A k \in DOMAIN cart : cart[k].quantity >= 1

\* C3 witness: updateQuantity(id, -5) arrived for a line of quantity 2, which
\* now has quantity 1.
C3_Witness ==
  /\ lastIntent.op = "updateQuantity"
  /\ lastIntent.delta = -5
  /\ lastIntent.qty = 2
  /\ QtyOf(cart, lastIntent.id) = 1

\* What C4 says updateQuantity(itemId, delta) does to a cart holding itemId.
C4_UpdateEffect(itemId, delta) ==
  /\ Len(cart') = Len(cart)
  /\ \A k \in DOMAIN cart :
       /\ cart'[k].item = cart[k].item
       /\ IF cart[k].item.id = itemId
          THEN /\ cart[k].quantity + delta >= 1 => cart'[k].quantity = cart[k].quantity + delta
               /\ cart[k].quantity + delta < 1 => cart'[k].quantity = 1
          ELSE cart'[k].quantity = cart[k].quantity

\* C4: for a line present with quantity q, updateQuantity(id, delta) sets its
\* quantity to max(1, q + delta) and leaves every other line, the number of
\* lines and their order as they were; the line is never removed.
C4_UpdateQuantity ==
  [][\A itemId \in CartIds(cart) : \A delta \in Deltas :
       (QuantityClick(itemId, delta) \/ CallUpdateQuantity(itemId, delta))
         => C4_UpdateEffect(itemId, delta)]_vars

\* C4 witness: updateQuantity(id, -1) arrived for a line of quantity 1 in a
\* cart of three lines; the line is still there with quantity 1.
C4_Witness ==
  /\ lastIntent.op = "updateQuantity"
  /\ lastIntent.delta = -1
  /\ lastIntent.qty = 1
  /\ QtyOf(cart, lastIntent.id) = 1
  /\ Len(cart) = 3

\* What C5 says removeItem(itemId) does to the cart.
C5_RemoveEffect(itemId) ==
  /\ LinesFor(cart', itemId) = 0
  /\ CartIds(cart') = CartIds(cart) \ {itemId}
  /\ Len(cart') = Cardinality(CartIds(cart'))
  /\ \A k \in DOMAIN cart' : cart'[k] = cart[Pos(cart, cart'[k].item.id)]
  /\ SameRelativeOrder(cart, cart')

\* C5: removeItem(id) deletes the line for id whatever its quantity, and
\* every other line keeps its quantity and its relative order.
C5_RemoveItem ==
  [][\A itemId \in MenuIds \cup {UnknownId} :
       (RemoveClick(itemId) \/ CallRemoveFromCart(itemId))
         => C5_RemoveEffect(itemId)]_vars

\* C5 witness: removeItem arrived for a line of quantity 2 that was not the
\* only line; the cart has no line for it now.
C5_Witness ==
  /\ lastIntent.op = "removeItem"
  /\ lastIntent.qty = 2
  /\ lastIntent.id \notin CartIds(cart)
  /\ Len(cart) >= 2

\* C6: removeItem(id) and updateQuantity(id, delta) for an id without a line
\* change neither the cart nor the order step, the modal flag, the active tab
\* or the reservation selection.
C6_AbsentIdNoOp ==
  [][\A itemId \in MenuIds \cup {UnknownId} :
       ( /\ itemId \notin CartIds(cart)
         /\ \/ CallRemoveFromCart(itemId)
            \/ \E delta \in Deltas : CallUpdateQuantity(itemId, delta) )
       => UNCHANGED <<cart, orderStep, isModalOpen, activeTab,
                      selectedDate, selectedTime>>]_vars

\* C6 witness: a removeItem or updateQuantity for an id without a line has
\* been handled with a non-empty cart, the success step shown and a
\* reservation selected.
C6_Witness ==
  /\ lastIntent.op \in {"removeItem", "updateQuantity"}
  /\ lastIntent.qty = 0
  /\ Len(cart) > 0
  /\ orderStep = "success"
  /\ selectedDate # << >>
  /\ selectedTime # ""

\* C7: over any single step, two items that have a line before and after
\* keep their relative order, and an item that gets a line gets the last one.
C7_StableOrder ==
  [][ /\ SameRelativeOrder(cart, cart')
      /\ \A itemId \in CartIds(cart') \ CartIds(cart) :
           Pos(cart', itemId) = Len(cart') ]_vars

\* C7 witness: the first menu item was added last, after the third and the
\* second, and stands last.
C7_Witness ==
  /\ lastIntent.op = "addItem"
  /\ lastIntent.qty = 0
  /\ Len(cart) = 3
  /\ cart[1].item.id = "3"
  /\ cart[2].item.id = "2"
  /\ cart[3].item.id = "1"

\* The sum of price * quantity over the lines with index in S, in no order.
RECURSIVE SumLines(_, _)
SumLines(c, S) ==
  IF S = {} THEN 0
  ELSE LET k == CHOOSE k \in S : TRUE
       IN  (c[k].item.price * c[k].quantity) + SumLines(c, S \ {k})

\* The cart with its lines rearranged by the permutation f of its indices.
Rearranged(c, f) == [k \in DOMAIN c |-> c[f[k]]]

\* C8: the subtotal is the sum of price * quantity over the lines, the same
\* for every order of the lines, and the total shown for a non-empty cart is
\* the subtotal plus the delivery fee of 10.
C8_Totals ==
  /\ cartTotal(cart) = SumLines(cart, DOMAIN cart)
  /\ \A f \in Permutations(DOMAIN cart) :
       cartTotal(Rearranged(cart, f)) = cartTotal(cart)
  /\ Len(cart) > 0 =>
       displayedTotal(cart) = SumLines(cart, DOMAIN cart) + DeliveryFee

\* C8 witness: two Diavola then one Margherita: 2 * 74 + 68 = 216, total 226.
C8_Witness ==
  /\ Len(cart) = 2
  /\ cart[1] = [item |-> MENU[2], quantity |-> 2]
  /\ cart[2] = [item |-> MENU[1], quantity |-> 1]
  /\ cartTotal(cart) = 216
  /\ displayedTotal(cart) = 226

\* C9: the step from the selection step to the summary step is offered, and
\* taken, only while the cart is non-empty.
C9_AdvanceNeedsItems ==
  /\ [](ENABLED FinalizarPedidoClick => Len(cart) > 0)
  /\ [][(orderStep = "selection" /\ orderStep' = "summary") => Len(cart) > 0]_vars

\* C9 witness: the selection step is shown with an empty cart, right after
\* VOLTAR AO MENU, and FINALIZAR PEDIDO is not offered.
C9_Witness ==
  /\ lastIntent.op = "returnToSelection"
  /\ OrderTabShown
  /\ orderStep = "selection"
  /\ cart = << >>
  /\ ~ENABLED FinalizarPedidoClick

\* C10: in every reachable state the summary step comes with a cart of at
\* least one line.
C10_SummaryHasItems ==
  orderStep = "summary" => Len(cart) > 0

\* C11: a cart with zero lines is never finalized: in every reachable state
\* the success step comes with a cart of at least one line.
C11_SuccessHasItems ==
  orderStep = "success" => Len(cart) > 0

\* C12: the flow starts at the selection step; every step into the summary
\* step leaves the selection step; every step into the success step is
\* FINALIZAR E PAGAR taken in the summary step; and the success step is left
\* by VOLTAR AO SITE only.
C12_FlowOrder ==
  /\ orderStep = "selection"
  /\ [][ /\ (orderStep # "summary" /\ orderStep' = "summary")
              => orderStep = "selection"
         /\ (orderStep # "success" /\ orderStep' = "success")
              => (orderStep = "summary" /\ FinalizarEPagarClick)
         /\ (orderStep = "success" /\ orderStep' # "success")
              => VoltarAoSiteClick ]_vars

\* C12 witness: the success step is still the order step right after a
\* switch to the reserve tab.
C12_Witness ==
  /\ orderStep = "success"
  /\ lastIntent = Intent("setActiveTab", "reserve", 0, 0)
  /\ activeTab = "reserve"

\* The state the reset of the session leaves: cart empty, selection step,
\* modal closed.
C13_ResetDone(c, step, open) == c = << >> /\ step = "selection" /\ ~open

\* C13: VOLTAR AO SITE is offered in the success step only, and it empties the
\* cart, returns to the selection step and closes the modal in one step: the
\* state after it has all three, and no step out of the success step changes
\* the cart or the order step without doing all three.
C13_AtomicReset ==
  /\ [](ENABLED VoltarAoSiteClick => orderStep = "success")
  /\ [](lastIntent.op = "acknowledgeSuccessAndReset"
          => C13_ResetDone(cart, orderStep, isModalOpen))
  /\ [][VoltarAoSiteClick => C13_ResetDone(cart', orderStep', isModalOpen')]_vars
  /\ [][(orderStep = "success" /\ (cart' # cart \/ orderStep' # orderStep))
          => C13_ResetDone(cart', orderStep', isModalOpen')]_vars

\* C13 witness: the state right after VOLTAR AO SITE, with the order tab
\* still the active one and a day selected earlier.
C13_Witness ==
  /\ lastIntent.op = "acknowledgeSuccessAndReset"
  /\ C13_ResetDone(cart, orderStep, isModalOpen)
  /\ activeTab = "order"
  /\ selectedDate # << >>

\* C14: the tab buttons, the four buttons that open the modal and the two
\* that close it never change the cart, the reservation selection or the
\* order step.
C14_SessionFrame ==
  [][( \/ CartBadgeClick
       \/ HeaderOpenClick
       \/ \E tab \in {"reserve", "order"} : HeroClick(tab)
       \/ CloseClick
       \/ \E tab \in {"reserve", "order"} : TabClick(tab) )
     => UNCHANGED <<cart, selectedDate, selectedTime, orderStep>>]_vars

\* C14 witness: the modal was just closed in the success step, with lines in
\* the cart and a day and a time selected.
C14_Witness ==
  /\ lastIntent.op = "closeOverlay"
  /\ ~isModalOpen
  /\ orderStep = "success"
  /\ Len(cart) = 2
  /\ selectedDate # << >>
  /\ selectedTime # ""

\* What VOLTAR AO MENU does: the selection step, the cart as it was.
C15_BackEffect ==
  [][VoltarAoMenuClick => (orderStep' = "selection" /\ cart' = cart)]_vars

\* C15 as stated: in every state with the summary step, returnToSelection is
\* enabled whatever the cart holds, leads to the selection step and leaves
\* the cart unchanged.
C15_BackEnabledInEverySummaryState ==
  /\ [](orderStep = "summary" => ENABLED VoltarAoMenuClick)
  /\ C15_BackEffect

\* C15 as amended: in every state in which the summary step is on screen (the
\* modal open on the order tab), returnToSelection is enabled whatever the
\* cart holds, leads to the selection step and leaves the cart unchanged.
C15_BackEnabledWhenShown ==
  /\ []((orderStep = "summary" /\ OrderTabShown) => ENABLED VoltarAoMenuClick)
  /\ C15_BackEffect

\* C15 witness: VOLTAR AO MENU was just clicked with two lines in the cart,
\* the second of quantity 2.
C15_Witness ==
  /\ lastIntent.op = "returnToSelection"
  /\ orderStep = "selection"
  /\ Len(cart) = 2
  /\ cart[2].quantity = 2

\* What FINALIZAR E PAGAR does: the success step, the cart as it was; and the
\* order step has no value besides the three steps.
C16_FinalizeEffect ==
  /\ [](orderStep \in {"selection", "summary", "success"})
  /\ [][FinalizarEPagarClick => (orderStep' = "success" /\ cart' = cart)]_vars

\* C16 as stated: in every state with the summary step, finalizeOrder is
\* enabled, and it always leads to the success step with the cart unchanged.
C16_FinalizeEnabledInEverySummaryState ==
  /\ [](orderStep = "summary" => ENABLED FinalizarEPagarClick)
  /\ C16_FinalizeEffect

\* C16 as amended: in every state in which the summary step is on screen (the
\* modal open on the order tab), finalizeOrder is enabled whatever the cart
\* holds, and it always leads to the success step with the cart unchanged.
C16_FinalizeEnabledWhenShown ==
  /\ []((orderStep = "summary" /\ OrderTabShown) => ENABLED FinalizarEPagarClick)
  /\ C16_FinalizeEffect

\* C16 witness: FINALIZAR E PAGAR was just clicked with two lines in the cart,
\* which are still there in the success step.
C16_Witness ==
  /\ lastIntent.op = "finalizeOrder"
  /\ orderStep = "success"
  /\ Len(cart) = 2
  /\ cart[1].quantity = 2

\* Both a day and a time slot are selected.
C17_BothSelected == selectedDate # << >> /\ selectedTime # ""

\* C17: in every reachable state CONFIRMAR RESERVA is not disabled exactly
\* when both a day and a time slot are selected, and where the button is on
\* screen it can be clicked exactly then.
C17_Confirmable ==
  /\ ~ConfirmDisabled <=> C17_BothSelected
  /\ ENABLED ConfirmClick => C17_BothSelected
  /\ ReserveTabShown => (C17_BothSelected => ENABLED ConfirmClick)

\* C17 witness: the reserve tab is on screen with a day selected and no time
\* slot, and the button is disabled.
C17_Witness ==
  /\ ReserveTabShown
  /\ selectedDate # << >>
  /\ selectedTime = ""
  /\ ConfirmDisabled
  /\ ~ENABLED ConfirmClick

\* C18: a date button sets the selected day and leaves the selected time
\* slot as it was; a time button sets the selected slot to its own and leaves
\* the selected day as it was; neither changes the cart, the order step, the
\* active tab or the modal flag.
C18_SelectionFrame ==
  [][ /\ \A i \in DayInputs :
           DateClick(i) =>
             /\ selectedDate' # << >>
             /\ selectedTime' = selectedTime
             /\ UNCHANGED <<cart, orderStep, activeTab, isModalOpen>>
      /\ \A time \in SlotInputs :
           TimeClick(time) =>
             /\ selectedTime' = time
             /\ selectedDate' = selectedDate
             /\ UNCHANGED <<cart, orderStep, activeTab, isModalOpen>> ]_vars

\* C18 witness: on the first day of the session the last date button was
\* just clicked, 2 January 2027; the slot chosen before is still 22:00 and
\* the summary step still holds a cart line.
C18_Witness ==
  /\ lastIntent.op = "selectDay"
  /\ lastIntent.delta = 13
  /\ today = 0
  /\ selectedDate = << "Sat", "Jan", 2, 2027 >>
  /\ selectedTime = "22:00"
  /\ orderStep = "summary"
  /\ Len(cart) > 0

\* The minutes after midnight at which the grid is rendered: the first minute
\* of the day, noon, the last minute.
TimesOfDay == { 0, 720, 1439 }

\* The calendar day after d.
Tomorrow(d) ==
  IF d.day < DaysInMonth(d.year, d.month)
  THEN [year |-> d.year, month |-> d.month, day |-> d.day + 1, dow |-> (d.dow + 1) % 7]
  ELSE IF d.month < 12
  THEN [year |-> d.year, month |-> d.month + 1, day |-> 1, dow |-> (d.dow + 1) % 7]
  ELSE [year |-> d.year + 1, month |-> 1, day |-> 1, dow |-> (d.dow + 1) % 7]

\* The calendar day n days after d.
RECURSIVE DaysLater(_, _)
DaysLater(d, n) == IF n = 0 THEN d ELSE DaysLater(Tomorrow(d), n - 1)

\* C19: at whatever time of day the grid is rendered, it has exactly 14
\* entries, the first the current day and each next the following calendar
\* day.
C19_FourteenDays ==
  \A minutes \in TimesOfDay :
    LET days == AvailableDays(AtTime(NewDate(today), minutes))
    IN  /\ Len(days) = 14
        /\ days[1] = toDateString(NewDate(today))
        /\ \A k \in 1 .. 14 : days[k] = toDateString(DaysLater(NewDate(today), k - 1))

\* C19 witness: after one midnight, Monday 21 December 2026, the grid
\* rendered in the last minute of the day runs over the end of the month and
\* of the year to Sunday 3 January 2027, and the last button was just clicked.
C19_Witness ==
  LET days == AvailableDays(AtTime(NewDate(today), 1439))
  IN  /\ today = 1
      /\ days[1] = << "Mon", "Dec", 21, 2026 >>
      /\ days[11] = << "Thu", "Dec", 31, 2026 >>
      /\ days[12] = << "Fri", "Jan", 1, 2027 >>
      /\ days[14] = << "Sun", "Jan", 3, 2027 >>
      /\ lastIntent.op = "selectDay"
      /\ selectedDate = days[14]

\* C20: opening the overlay on a named tab is one step.  A click on a hero
\* button or on the cart badge ends with the overlay open and activeTab the
\* named tab, whatever the tab was before, and in every state whose last
\* intent is openOverlay(tab) the overlay is open on that tab.
C20_OpenOnTab ==
  /\ [](( /\ lastIntent.op = "openOverlay"
          /\ lastIntent.id \in {"reserve", "order"})
        => (isModalOpen /\ activeTab = lastIntent.id))
  /\ [][ /\ \A tab \in {"reserve", "order"} :
              HeroClick(tab) => (isModalOpen' /\ activeTab' = tab)
         /\ CartBadgeClick => (isModalOpen' /\ activeTab' = "order") ]_vars

\* C20 witness: RESERVAR MESA was just clicked while the order flow stood in
\* its summary step with two lines; the overlay is open on the reserve tab.
C20_Witness ==
  /\ lastIntent = Intent("openOverlay", "reserve", 0, 0)
  /\ isModalOpen
  /\ activeTab = "reserve"
  /\ orderStep = "summary"
  /\ Len(cart) = 2

\* One handler call applied to a cart on its own, as after a render.
C21_Apply(c, call) ==
  IF call.op = "addItem" THEN addToCart(c, MenuItem(call.id))
  ELSE IF call.op = "removeItem" THEN removeFromCart(c, call.id)
  ELSE updateQuantity(c, call.id, call.delta)

\* The calls of a queue applied one after the other, a render between each.
RECURSIVE C21_OneByOne(_, _)
C21_OneByOne(c, queue) ==
  IF queue = << >> THEN c
  ELSE C21_OneByOne(C21_Apply(c, Head(queue)), Tail(queue))

\* C21: in every state, handler calls made back to back before the next
\* render leave the cart that the same calls leave when a render separates
\* them: each is applied, in the order made, to the outcome of the one before.
C21_InOrderOnLatest ==
  \A queue \in Batches :
    processQueue(cart, cart, queue) = C21_OneByOne(cart, queue)

\* C21 witness: two calls made from a render whose cart had no Margherita
\* left one Margherita line of quantity 2: the second call counted the first.
C21_Witness ==
  /\ lastIntent = Intent("batch", "1", 2, 0)
  /\ cart = << [item |-> MENU[1], quantity |-> 2] >>

\* C22: a selected time slot is one of the 8 fixed slots, and a selected day
\* is one of the 14 days of the grid as it is rendered now, also when the
\* calendar day has advanced since the selection.
C22_SelectionInCurrentSets ==
  /\ Len(TIME_SLOTS) = 8
  /\ selectedTime # "" => selectedTime \in Range(TIME_SLOTS)
  /\ selectedDate # << >> => selectedDate \in Range(AvailableDays(NewDate(today)))

\* C23: the cart changes only by an add made with the overlay open on the
\* order tab in the selection step, by a quantity change or a removal made
\* there in the summary step, or by the reset after success; the controls
\* for these exist in no other state, and in the success step the cart stays
\* as it is until the reset.
C23_CartChangesOnlyWhereOffered ==
  /\ [](\A item \in ItemInputs :
          ENABLED AddClick(item) => (OrderTabShown /\ orderStep = "selection"))
  /\ [](\A itemId \in MenuIds :
          (ENABLED RemoveClick(itemId) \/ \E delta \in {-1, 1} : ENABLED QuantityClick(itemId, delta))
            => (OrderTabShown /\ orderStep = "summary"))
  /\ [][cart' # cart =>
          \/ /\ OrderTabShown /\ orderStep = "selection"
             /\ \E item \in ItemInputs : AddClick(item)
          \/ /\ OrderTabShown /\ orderStep = "summary"
             /\ \E itemId \in CartIds(cart) :
                  RemoveClick(itemId) \/ \E delta \in {-1, 1} : QuantityClick(itemId, delta)
          \/ VoltarAoSiteClick]_vars
  /\ [][(orderStep = "success" /\ ~VoltarAoSiteClick) => cart' = cart]_vars

\* C23 witness: Plus on the Diavola line of the summary step has just raised
\* its quantity from 1 to 2.
C23_Witness ==
  /\ lastIntent = Intent("updateQuantity", "2", 1, 1)
  /\ OrderTabShown
  /\ orderStep = "summary"
  /\ QtyOf(cart, "2") = 2

\* C24: the reset after success leaves the selected day, the selected time
\* slot and the active tab as they were.
C24_ResetFrame ==
  [][VoltarAoSiteClick => UNCHANGED <<selectedDate, selectedTime, activeTab>>]_vars

\* C24 witness: VOLTAR AO SITE was just clicked while the last day of the
\* grid and the last slot were selected; both are still selected and the
\* order tab is still the active one.
C24_Witness ==
  /\ lastIntent.op = "acknowledgeSuccessAndReset"
  /\ today = 0
  /\ selectedDate = << "Sat", "Jan", 2, 2027 >>
  /\ selectedTime = "22:00"
  /\ activeTab = "order"
  /\ cart = << >>
  /\ ~isModalOpen

\* C25: no step takes a selected day or a selected time slot back to unset,
\* so once CONFIRMAR RESERVA is enabled it is enabled after every later
\* step, the reset after success included.
C25_SelectionNeverUnset ==
  /\ [][selectedDate # << >> => selectedDate' # << >>]_vars
  /\ [][selectedTime # "" => selectedTime' # ""]_vars
  /\ [][~ConfirmDisabled => ~ConfirmDisabled']_vars
  /\ [][(VoltarAoSiteClick /\ ~ConfirmDisabled) => ~ConfirmDisabled']_vars

\* C25 witness: the first day of the grid and the first slot were selected,
\* an order went through to success and VOLTAR AO SITE was just clicked; the
\* selection is still there and CONFIRMAR RESERVA is not disabled.
C25_Witness ==
  /\ lastIntent.op = "acknowledgeSuccessAndReset"
  /\ today = 0
  /\ selectedDate = << "Sun", "Dec", 20, 2026 >>
  /\ selectedTime = "18:30"
  /\ ~ConfirmDisabled

\* C26: every cart line holds an item of MENU, unaltered, so the cart never
\* has more lines than the 4 items of MENU.
C26_LinesFromCatalog ==
  /\ Len(MENU) = 4
  /\ \A k \in DOMAIN cart : \E m \in DOMAIN MENU : cart[k].item = MENU[m]
  /\ Len(cart) <= Len(MENU)

\* C26 witness: all four menu items are in the cart, the Tiramisu added last.
C26_Witness ==
  /\ Len(cart) = 4
  /\ CartIds(cart) = { "1", "2", "3", "4" }
  /\ lastIntent = Intent("addItem", "4", 0, 0)
  /\ cart[4].item = MENU[4]

====
